---- MODULE Spec2Model ----
(***************************************************************************)
(* Model of the qr-joel server: the JORFSearch client                      *)
(* (JORFSearch.utils.ts), the umami logger and the /qrcode handler of      *)
(* server.ts.                                                              *)
(*                                                                         *)
(* A JavaScript string is a sequence of characters; a character is a       *)
(* one-element TLA+ string, and the fixed parts of a URL template are      *)
(* single tokens.  undefined and null are two distinguished values.        *)
(***************************************************************************)
EXTENDS Integers, Sequences, FiniteSets, TLC

VARIABLES
    entry,       \* what runs: "qrcode" (the handler) or a client function called directly
    query,       \* req.query of the /qrcode request
    arg,         \* arguments of a direct client call
    pc,          \* position of the handler
    locals,      \* the handler's local variables
    response,    \* the HTTP response written so far
    overlay,     \* the <text> element of the SVG overlay
    events,      \* umami events logged
    calls,       \* client functions called, with their argument
    client,      \* position and data of the client call in flight
    requests,    \* URLs requested from the index, in order
    norm         \* the name normaliser applied once and twice

vars == <<entry, query, arg, pc, locals, response, overlay, events, calls, client,
          requests, norm>>

---------------------------------------------------------------------------
(* Bounds *)

MaxItems == 2
MaxIdentities == 2
MaxLen == 3

---------------------------------------------------------------------------
(* JavaScript values *)

Undefined == <<"<undefined>">>
Null == <<"<null>">>

Str(s) == s \notin {Undefined, Null}

\* Boolean(v) / the truthiness of a string-or-undefined value
Truthy(v) == v # Undefined /\ v # Null /\ v # <<>>

\* a ?? b
Coalesce(a, b) == IF a = Undefined \/ a = Null THEN b ELSE a

SeqsUpTo(S, n) == UNION {[1..k -> S] : k \in 0..n}

---------------------------------------------------------------------------
(* Characters *)

Mark == "U+0301"   \* a combining diacritical mark
LowerLetters == {"a", "d", "j", "p", "q", "t"}
UpperLetters == {"A", "D", "J", "P", "Q", "T"}
Letters == LowerLetters \cup UpperLetters

toLowerCaseChar(c) ==
    CASE c = "A" -> "a" [] c = "D" -> "d" [] c = "J" -> "j"
      [] c = "P" -> "p" [] c = "Q" -> "q" [] c = "T" -> "t" [] OTHER -> c

toUpperCaseChar(c) ==
    CASE c = "a" -> "A" [] c = "d" -> "D" [] c = "j" -> "J"
      [] c = "p" -> "P" [] c = "q" -> "Q" [] c = "t" -> "T" [] OTHER -> c

toLowerCase(s) == [i \in 1..Len(s) |-> toLowerCaseChar(s[i])]
toUpperCase(s) == [i \in 1..Len(s) |-> toUpperCaseChar(s[i])]

IsWhitespace(c) == c = " "

RECURSIVE trimStart(_)
trimStart(s) ==
    IF s # <<>> /\ IsWhitespace(Head(s)) THEN trimStart(Tail(s)) ELSE s

RECURSIVE trimEnd(_)
trimEnd(s) ==
    IF s # <<>> /\ IsWhitespace(s[Len(s)]) THEN trimEnd(SubSeq(s, 1, Len(s) - 1)) ELSE s

trim(s) == trimEnd(trimStart(s))

\* encodeURI: escapes the space, the double quote, the brackets and the
\* bytes of a non-ASCII character; letters and - ' ( ) / ? = & : pass.
encodeURIChar(c) ==
    CASE c = " " -> "%20"
      [] c = "\"" -> "%22"
      [] c = "[" -> "%5B"
      [] c = "]" -> "%5D"
      [] c = Mark -> "%CC%81"
      [] OTHER -> c

encodeURI(s) == [i \in 1..Len(s) |-> encodeURIChar(s[i])]

\* s.split(" ").length: one piece more than there are separators
SplitLength(s) == Cardinality({i \in 1..Len(s) : s[i] = " "}) + 1

\* parseInt of a query value; 0 stands for NaN (no size of the model is 0)
NaN == 0
Digits == <<"0", "1", "2", "3", "4", "5", "6", "7", "8", "9">>
DigitValue(c) == CHOOSE d \in 0..9 : Digits[d + 1] = c
IsDigit(c) == \E d \in 0..9 : Digits[d + 1] = c

RECURSIVE ParseDigits(_, _)
ParseDigits(s, acc) ==
    IF s = <<>> \/ ~IsDigit(Head(s)) THEN acc
    ELSE ParseDigits(Tail(s), 10 * acc + DigitValue(Head(s)))

parseInt(v) ==
    IF ~Str(v) \/ v = <<>> \/ ~IsDigit(Head(v)) THEN NaN ELSE ParseDigits(v, 0)

---------------------------------------------------------------------------
(* JORFSearch.utils.ts: the name normaliser *)

IsDelimiter(c) == IsWhitespace(c) \/ c = "-" \/ c = "'"

\* out.replace(/[U+0300-U+036F]/g, ""): the combining marks are removed
stripMarks(s) == SelectSeq(s, LAMBDA c : c # Mark)

\* out.replace(/(^|[\s\-'])\p{L}/gu, (m) => m.toUpperCase()): a match is a
\* letter at the start or after a delimiter; a delimiter is no letter, so no
\* two matches overlap and each such letter is upper-cased.
capitalise(s) ==
    [i \in 1..Len(s) |->
        IF s[i] \in Letters /\ (i = 1 \/ IsDelimiter(s[i - 1]))
        THEN toUpperCaseChar(s[i]) ELSE s[i]]

\* out.replace(/[()]/g, "")
stripParens(s) == SelectSeq(s, LAMBDA c : c \notin {"(", ")"})

cleanPeopleNameJORFURL(input) ==
    IF ~Truthy(input) THEN <<>>
    ELSE stripParens(capitalise(stripMarks(toLowerCase(trim(input)))))

---------------------------------------------------------------------------
(* JORFSearch.utils.ts: the URLs requested *)

JORF == "https://jorfsearch.steinertriples.ch/"
FORMAT_JSON == "?format=JSON"

PeopleUrl(peopleName) ==
    encodeURI(<<JORF, "name/">> \o cleanPeopleNameJORFURL(peopleName) \o <<FORMAT_JSON>>)

TagUrl(tag, tagValue) ==
    encodeURI(<<JORF, "tag/">> \o tag
              \o (IF tagValue # Undefined THEN <<"=", "\"">> \o tagValue \o <<"\"">> ELSE <<>>)
              \o <<FORMAT_JSON>>)

OrganisationUrl(wikiId) ==
    encodeURI(<<JORF>> \o toUpperCase(wikiId) \o <<FORMAT_JSON>>)

OrganisationNameUrl(wikidataId) ==
    encodeURI(<<JORF, "wikidata_id_to_name?ids", "[", "]", "=">> \o wikidataId)

endsWithFormat(url) == url # <<>> /\ url[Len(url)] = FORMAT_JSON

\* the URL of the follow-up request of callJORFSearchPeople
FollowUpUrl(responseUrl) ==
    IF endsWithFormat(responseUrl) THEN responseUrl ELSE responseUrl \o <<FORMAT_JSON>>

\* if (request.res?.responseUrl)
HasResponseUrl(responseUrl) == Truthy(responseUrl)

---------------------------------------------------------------------------
(* JORFSearch.utils.ts: response bodies and their normalisation *)

\* res.data: null, a string or an array
NullData == [t |-> "null", s |-> <<>>, a |-> <<>>]
StringData(str) == [t |-> "string", s |-> str, a |-> <<>>]
ArrayData(arr) == [t |-> "array", s |-> <<>>, a |-> arr]
EmptyList == ArrayData(<<>>)

\* mutant: only nom is looked at
ItemKept_NomOnly(raw_item) == raw_item.nom # Undefined /\ raw_item.nom # Null

\* raw_item.nom != undefined && raw_item.prenom != undefined (loose inequality:
\* false of undefined and of null)
ItemKept(raw_item) ==
    /\ raw_item.nom # Undefined /\ raw_item.nom # Null
    /\ raw_item.prenom # Undefined /\ raw_item.prenom # Null

\* raw_items.reduce((tab, raw_item) => { if (...) tab.push(raw_item); return tab }, [])
RECURSIVE reduceItems(_, _)
reduceItems(tab, raw_items) ==
    IF raw_items = <<>> THEN tab
    ELSE reduceItems(IF ItemKept(Head(raw_items)) THEN Append(tab, Head(raw_items)) ELSE tab,
                     Tail(raw_items))

cleanJORFItems(raw_items) == reduceItems(<<>>, raw_items)

\* .then of callJORFSearchTag and callJORFSearchOrganisation
ListOrEmpty(data) ==
    IF data.t = "null" \/ data.t = "string" THEN EmptyList
    ELSE ArrayData(cleanJORFItems(data.a))

\* .then of callJORFSearchOrganisationName: return r.data
OrganisationNameResult(data) == data

---------------------------------------------------------------------------
(* What the index may answer *)

\* a field of an item: missing, null (one field is enough to tell != from !==),
\* the empty string or a name
RawItems == [prenom : {Undefined, Null, <<>>, <<"J">>}, nom : {Undefined, <<>>, <<"D">>}]

Identities == {[name |-> <<"C", "o", "u", "r">>, id |-> <<"Q", "1">>],
               [name |-> <<"M", "i", "n">>, id |-> <<"Q", "1", "2">>]}

ArrayBodies(fn) ==
    IF fn = "organisation_name" THEN SeqsUpTo(Identities, MaxIdentities)
    ELSE SeqsUpTo(RawItems, MaxItems)

\* a JSON string: the redirect marker
JsonStrings == {<<"r">>}
\* a body that is no JSON: axios hands the text over as res.data
RawTexts == {<<>>, <<"<", "h">>}

RedirectTarget == <<JORF, "name/", "J", "%20", "D">>
ResponseUrls == {Undefined, RedirectTarget, RedirectTarget \o <<FORMAT_JSON>>}

Failed(o) == o.transport \in {"network_error", "non_2xx"}

NoOutcome == [transport |-> "none", data |-> NullData, responseUrl |-> Undefined]

\* request.res.responseUrl is read after a string body of the first request of
\* callJORFSearchPeople only; elsewhere it is left out of the state.
Outcomes(fn, hop) ==
    LET urls(d) == IF fn = "people" /\ hop = 1 /\ d.t = "string"
                   THEN ResponseUrls ELSE {Undefined}
    IN  {[transport |-> tr, data |-> NullData, responseUrl |-> Undefined] :
            tr \in {"network_error", "non_2xx"}}
        \cup UNION {{[transport |-> "malformed", data |-> StringData(b), responseUrl |-> u] :
                        u \in urls(StringData(b))} : b \in RawTexts}
        \cup UNION {{[transport |-> "ok", data |-> d, responseUrl |-> u] : u \in urls(d)} :
                        d \in {NullData} \cup {StringData(b) : b \in JsonStrings}
                              \cup {ArrayData(a) : a \in ArrayBodies(fn)}}

---------------------------------------------------------------------------
(* JORFSearch.utils.ts: the four entry points *)

ClientIdle == [pc |-> "idle", fn |-> "none", res1 |-> NoOutcome, res2 |-> NoOutcome,
               result |-> EmptyList]

\* umami.log({ event }) of the entry point: it swallows its own failures
CallEvent(fn) ==
    CASE fn = "people" -> <<"/jorfsearch-request-people">>
      [] fn = "tag" -> <<"/jorfsearch-request-tag">>
      [] fn = "organisation" -> <<"/jorfsearch-request-organisation">>
      [] OTHER -> <<>>

CallUrl(fn, a, b) ==
    CASE fn = "people" -> PeopleUrl(a)
      [] fn = "tag" -> TagUrl(a, b)
      [] fn = "organisation" -> OrganisationUrl(a)
      [] OTHER -> OrganisationNameUrl(a)

\* the entry point is entered: the event is logged and the first request issued
Call(fn, a, b) ==
    /\ calls' = Append(calls, [fn |-> fn, a |-> a, b |-> b])
    /\ events' = events \o CallEvent(fn)
    /\ requests' = Append(requests, CallUrl(fn, a, b))
    /\ client' = [ClientIdle EXCEPT !.pc = "req1", !.fn = fn]

\* mutant: the follow-up is issued without looking at responseUrl
FollowsRedirect_WithoutUrl(o) == ~Failed(o) /\ o.data.t = "string"

\* callJORFSearchPeople, first .then: is a follow-up request issued?
FollowsRedirect(o) ==
    ~Failed(o) /\ o.data.t = "string" /\ HasResponseUrl(o.responseUrl)

\* what the entry point returns after the first response, when it returns
FirstResult(fn, o) ==
    IF Failed(o) THEN EmptyList        \* catch (error) { console.log(error) } ... return []
    ELSE CASE fn = "people" ->
                IF o.data.t = "null" THEN EmptyList
                ELSE IF o.data.t # "string" THEN ArrayData(cleanJORFItems(o.data.a))
                ELSE EmptyList
           [] fn = "organisation_name" -> OrganisationNameResult(o.data)
           [] OTHER -> ListOrEmpty(o.data)

\* callJORFSearchPeople, second .then
SecondResult(o) ==
    IF Failed(o) THEN EmptyList
    ELSE IF o.data.t = "null" \/ o.data.t = "string" THEN EmptyList
    ELSE ArrayData(cleanJORFItems(o.data.a))

FirstResponse ==
    /\ client.pc = "req1"
    /\ \E o \in Outcomes(client.fn, 1) :
          IF client.fn = "people" /\ FollowsRedirect(o)
          THEN /\ client' = [client EXCEPT !.pc = "req2", !.res1 = o]
               /\ events' = Append(events, "/jorfsearch-request-people-formatted")
               /\ requests' = Append(requests, FollowUpUrl(o.responseUrl))
          ELSE /\ client' = [client EXCEPT !.pc = "returned", !.res1 = o,
                                           !.result = FirstResult(client.fn, o)]
               /\ UNCHANGED <<events, requests>>
    /\ UNCHANGED <<entry, query, arg, pc, locals, response, overlay, calls, norm>>

SecondResponse ==
    /\ client.pc = "req2"
    /\ \E o \in Outcomes(client.fn, 2) :
          client' = [client EXCEPT !.pc = "returned", !.res2 = o, !.result = SecondResult(o)]
    /\ UNCHANGED <<entry, query, arg, pc, locals, response, overlay, events, calls,
                   requests, norm>>

---------------------------------------------------------------------------
(* server.ts: GET /qrcode *)

APP_URL == "http://APP_DOMAIN"
DEFAULT_QRCODE_SIZE == 500

NoResponse == [status |-> 0, error |-> "", body |-> "none"]
NoOverlay == [drawn |-> FALSE, hidden |-> FALSE, text |-> <<>>]
NoLocals == [qr_code_size |-> NaN, frameEnabled |-> TRUE, verifyOnJORFSearch |-> FALSE,
             followType |-> "undefined", followLabel |-> Undefined, qr_url |-> Undefined]

\* res.status(400).json({ error })
BadRequest(error) == [status |-> 400, error |-> error, body |-> "json"]
\* catch (err) { res.status(500).json({ error: "QR code generation failed." }) }
InternalError == [status |-> 500, error |-> "InternalError", body |-> "json"]

\* name.split(" ").length > 2
NameRejected(name) == SplitLength(name) > 2

\* let verifyOnJORFSearch = false; if (req.query.verify != undefined) ... = Boolean(...)
VerifyFlag(q) == IF q.verify # Undefined THEN Truthy(q.verify) ELSE FALSE

FrameEnabled(q) == ~(q.frame # Undefined /\ q.frame = <<"f", "a", "l", "s", "e">>)

QrCodeSize(q) == IF parseInt(q.size) = NaN THEN DEFAULT_QRCODE_SIZE ELSE parseInt(q.size)

Chosen(ft, v) == [error |-> "", followType |-> ft, verify |-> v]
Refused(error) == [error |-> error, followType |-> "undefined", verify |-> FALSE]

\* the three parameters in the order of the code, each return ending the handler
NameStep(q) ==
    LET name == Coalesce(q.name, <<>>)
    IN  IF Len(name) > 0
        THEN IF NameRejected(name) THEN Refused("InvalidNameFormat")
             ELSE Chosen("people", VerifyFlag(q))
        ELSE Chosen("undefined", VerifyFlag(q))

\* mutant: the organisation is taken without the exclusivity check
OrganisationStep_NoExclusivity(q, r) ==
    IF r.error # "" THEN r
    ELSE IF Len(Coalesce(q.organisation, <<>>)) > 0 THEN Chosen("organisation", TRUE)
    ELSE r

OrganisationStep(q, r) ==
    LET organisation == Coalesce(q.organisation, <<>>)
    IN  IF r.error # "" THEN r
        ELSE IF Len(organisation) > 0
        THEN IF r.followType # "undefined" THEN Refused("ConflictingParameters")
             ELSE Chosen("organisation", TRUE)
        ELSE r

FunctionTagStep(q, r) ==
    LET function_tag == Coalesce(q.function_tag, <<>>)
    IN  IF r.error # "" THEN r
        ELSE IF Len(function_tag) > 0
        THEN IF r.followType # "undefined" THEN Refused("ConflictingParameters")
             ELSE Chosen("function_tag", r.verify)
        ELSE r

FollowTypeOf(q) ==
    LET r == FunctionTagStep(q, OrganisationStep(q, NameStep(q)))
    IN  IF q.size # Undefined /\ FrameEnabled(q) THEN Refused("SizeAndFrame")
        ELSE IF r.error = "" /\ r.followType = "undefined" THEN Refused("MissingParameter")
        ELSE r

\* lines 56-115: the parameters are read and the follow type chosen
Validate ==
    /\ pc = "start" /\ entry = "qrcode"
    /\ LET r == FollowTypeOf(query)
       IN  IF r.error # ""
           THEN /\ response' = BadRequest(r.error)
                /\ pc' = "done"
                /\ locals' = [locals EXCEPT !.qr_code_size = QrCodeSize(query),
                                            !.frameEnabled = FrameEnabled(query)]
           ELSE /\ locals' = [locals EXCEPT !.qr_code_size = QrCodeSize(query),
                                            !.frameEnabled = FrameEnabled(query),
                                            !.verifyOnJORFSearch = r.verify,
                                            !.followType = r.followType]
                /\ pc' = "resolve"
                /\ UNCHANGED response
    /\ UNCHANGED <<entry, query, arg, overlay, events, calls, client, requests, norm>>

\* the three templates of qr_url
PeopleQrUrl(prenomNom) == encodeURI(<<APP_URL, "/choose?name=">> \o prenomNom)
OrganisationQrUrl(organisation) == encodeURI(<<APP_URL, "/choose?&organisation=">> \o organisation)
\* mutant: the tag is sent under the organisation's parameter
FunctionTagQrUrl_WrongParameter(function_tag) ==
    encodeURI(<<APP_URL, "/choose?&organisation=">> \o function_tag)
FunctionTagQrUrl(function_tag) == encodeURI(<<APP_URL, "/choose?&function_tag=">> \o function_tag)

Resolved(label, url) ==
    /\ locals' = [locals EXCEPT !.followLabel = label, !.qr_url = url]
    /\ pc' = "render"
    /\ UNCHANGED response

\* switch (followType), up to the await of the branch or to its break
Resolve ==
    /\ pc = "resolve"
    /\ LET name == Coalesce(query.name, <<>>)
           organisation == Coalesce(query.organisation, <<>>)
           function_tag == Coalesce(query.function_tag, <<>>)
           awaits == /\ pc' = "await"
                     /\ UNCHANGED <<locals, response>>
           skips == UNCHANGED <<events, calls, client, requests>>
       IN  CASE locals.followType = "people" ->
                  IF locals.verifyOnJORFSearch
                  THEN Call("people", name, Undefined) /\ awaits
                  ELSE Resolved(name, PeopleQrUrl(name)) /\ skips
             [] locals.followType = "organisation" ->
                  Call("organisation_name", organisation, Undefined) /\ awaits
             [] locals.followType = "function_tag" ->
                  IF locals.verifyOnJORFSearch
                  THEN Call("tag", function_tag, Undefined) /\ awaits
                  ELSE Resolved(function_tag, FunctionTagQrUrl(function_tag)) /\ skips
    /\ UNCHANGED <<entry, query, arg, overlay, norm>>

\* JORFResult.length and JORFResult[0] of what the client returned: a string
\* has a length and characters, and a character has no .name
ResultLength(result) == IF result.t = "string" THEN Len(result.s) ELSE Len(result.a)
FirstName(result) == IF result.t = "array" THEN result.a[1].name ELSE Undefined

\* mutant: nom before prenom
PrenomNom_Swapped(result) == result.a[1].nom \o <<" ">> \o result.a[1].prenom

\* `${JORFResult[0].prenom} ${JORFResult[0].nom}`
PrenomNom(result) == result.a[1].prenom \o <<" ">> \o result.a[1].nom

\* mutant: the first of several identities is taken
OrganisationVerdict_FirstMatch(JORFResult) ==
    IF JORFResult.t = "null" THEN "TypeError"
    ELSE IF ResultLength(JORFResult) = 0 THEN "NotFound"
    ELSE "ok"

\* case "organisation": the two checks on JORFResult.length; the length of null
\* is a TypeError, caught by the handler
OrganisationVerdict(JORFResult) ==
    IF JORFResult.t = "null" THEN "TypeError"
    ELSE IF ResultLength(JORFResult) = 0 THEN "NotFound"
    ELSE IF ResultLength(JORFResult) > 1 THEN "AmbiguousResult"
    ELSE "ok"

\* the branch goes on with the list the client returned
ResolveReturn ==
    /\ pc = "await" /\ client.pc = "returned"
    /\ LET JORFResult == client.result
           fails(r) == /\ response' = r
                       /\ pc' = "done"
                       /\ UNCHANGED locals
       IN  CASE locals.followType = "people" ->
                  IF ResultLength(JORFResult) = 0 THEN fails(BadRequest("NotFound"))
                  ELSE Resolved(PrenomNom(JORFResult), PeopleQrUrl(PrenomNom(JORFResult)))
             [] locals.followType = "organisation" ->
                  IF OrganisationVerdict(JORFResult) = "TypeError" THEN fails(InternalError)
                  ELSE IF OrganisationVerdict(JORFResult) # "ok"
                  THEN fails(BadRequest(OrganisationVerdict(JORFResult)))
                  ELSE Resolved(FirstName(JORFResult),
                                OrganisationQrUrl(Coalesce(query.organisation, <<>>)))
             [] locals.followType = "function_tag" ->
                  IF ResultLength(JORFResult) = 0 THEN fails(BadRequest("NotFound"))
                  ELSE Resolved(Coalesce(query.function_tag, <<>>),
                                FunctionTagQrUrl(Coalesce(query.function_tag, <<>>)))
    /\ UNCHANGED <<entry, query, arg, overlay, events, calls, client, requests, norm>>

\* <text ... ${followLabel ? "hidden" : ""}>
TextHidden(followLabel) == Truthy(followLabel)
\* ${followLabel ?? ""}
TextContent(followLabel) == Coalesce(followLabel, <<>>)

QrcodeEvent(followType) ==
    CASE followType = "people" -> "/qrcode-people"
      [] followType = "organisation" -> "/qrcode-organisation"
      [] OTHER -> "/qrcode-tag"

\* lines 167-239: the QR code alone, or composited on the frame with the text overlay
Render ==
    /\ pc = "render"
    /\ pc' = "done"
    /\ IF ~locals.frameEnabled
       THEN /\ response' = [status |-> 200, error |-> "", body |-> "qr"]
            /\ UNCHANGED <<overlay, events>>
       ELSE /\ overlay' = [drawn |-> TRUE, hidden |-> TextHidden(locals.followLabel),
                           text |-> TextContent(locals.followLabel)]
            /\ response' = [status |-> 200, error |-> "", body |-> "framed"]
            /\ events' = Append(events, QrcodeEvent(locals.followType))
    /\ UNCHANGED <<entry, query, arg, locals, calls, client, requests, norm>>

\* QRCode.toBuffer or sharp throws: the catch of the handler answers 500
RenderFails ==
    /\ pc = "render"
    /\ pc' = "done"
    /\ response' = InternalError
    /\ UNCHANGED <<entry, query, arg, locals, overlay, events, calls, client, requests, norm>>

---------------------------------------------------------------------------
(* A client function called on its own *)

NoArg == [a |-> Undefined, b |-> Undefined]

DirectCall ==
    /\ pc = "start" /\ entry # "qrcode"
    /\ Call(entry, arg.a, arg.b)
    /\ pc' = "direct"
    /\ UNCHANGED <<entry, query, arg, locals, response, overlay, norm>>

---------------------------------------------------------------------------
(* The requests and calls explored *)

NameParams == {Undefined, <<>>, <<"d">>, <<"j", " ", "d">>, <<"j", " ", "p", " ", "d">>}
OrganisationParams == {Undefined, <<"q", "1">>}
FunctionTagParams == {<<>>, <<"t">>}
VerifyParams == {Undefined, <<>>, <<"t", "r", "u", "e">>, <<"f", "a", "l", "s", "e">>}
FrameParams == {Undefined, <<"f", "a", "l", "s", "e">>}
SizeParams == {Undefined, <<"3", "0", "0">>}

Queries == [name : NameParams, organisation : OrganisationParams,
            function_tag : FunctionTagParams, verify : VerifyParams,
            frame : FrameParams, size : SizeParams]
NoQuery == [name |-> Undefined, organisation |-> Undefined, function_tag |-> Undefined,
            verify |-> Undefined, frame |-> Undefined, size |-> Undefined]

EntryPoints == {"people", "tag", "organisation", "organisation_name"}

DirectArgs(fn) ==
    CASE fn = "people" -> {[a |-> n, b |-> Undefined] : n \in {<<"d", " ", "(", "j">>, <<>>}}
      [] fn = "tag" -> {[a |-> <<"t">>, b |-> v] : v \in {Undefined, <<"a">>}}
      [] OTHER -> {[a |-> <<"q", "1">>, b |-> Undefined]}

NormIdle == [pc |-> "idle", input |-> <<>>, once |-> <<>>, twice |-> <<>>]

Init ==
    /\ \/ entry = "qrcode" /\ query \in Queries /\ arg = NoArg
       \/ entry \in EntryPoints /\ query = NoQuery /\ arg \in DirectArgs(entry)
    /\ pc = "start"
    /\ locals = NoLocals
    /\ response = NoResponse
    /\ overlay = NoOverlay
    /\ events = <<>>
    /\ calls = <<>>
    /\ client = ClientIdle
    /\ requests = <<>>
    /\ norm = NormIdle

Next ==
    \/ Validate
    \/ Resolve
    \/ ResolveReturn
    \/ Render
    \/ RenderFails
    \/ DirectCall
    \/ FirstResponse
    \/ SecondResponse

Spec == Init /\ [][Next]_vars

---------------------------------------------------------------------------
(* The name normaliser on its own, applied to its own output *)

NormChars == {"d", "J", " ", "-", "'", "(", ")", Mark}

NormaliseOnce ==
    /\ norm.pc = "input"
    /\ norm' = [norm EXCEPT !.pc = "once", !.once = cleanPeopleNameJORFURL(norm.input)]
    /\ UNCHANGED <<entry, query, arg, pc, locals, response, overlay, events, calls,
                   client, requests>>

NormaliseTwice ==
    /\ norm.pc = "once"
    /\ norm' = [norm EXCEPT !.pc = "twice", !.twice = cleanPeopleNameJORFURL(norm.once)]
    /\ UNCHANGED <<entry, query, arg, pc, locals, response, overlay, events, calls,
                   client, requests>>

InitNorm ==
    /\ entry = "normaliser" /\ query = NoQuery /\ arg = NoArg
    /\ pc = "idle"
    /\ locals = NoLocals
    /\ response = NoResponse
    /\ overlay = NoOverlay
    /\ events = <<>>
    /\ calls = <<>>
    /\ client = ClientIdle
    /\ requests = <<>>
    /\ norm \in {[NormIdle EXCEPT !.pc = "input", !.input = s] : s \in SeqsUpTo(NormChars, MaxLen)}

NextNorm == NormaliseOnce \/ NormaliseTwice

SpecNorm == InitNorm /\ [][NextNorm]_vars

---------------------------------------------------------------------------
(* Properties *)

NonEmptyParam(v) == v # Undefined /\ v # <<>>

\* how many of name, organisation and function_tag are non-empty
NonEmptyCount ==
    Cardinality({p \in {"name", "organisation", "function_tag"} : NonEmptyParam(query[p])})

\* a size is given and the frame is not switched off
SizeWithFrame == query.size # Undefined /\ query.frame # <<"f", "a", "l", "s", "e">>

Validated == entry = "qrcode" /\ pc # "start"

TransportFailure(o) == o.transport \in {"network_error", "non_2xx", "malformed"}

\* the response the client's result was computed from
LastOutcome == IF client.res2 # NoOutcome THEN client.res2 ELSE client.res1

\* the request is not refused before the resolver, for giving a size with the
\* frame on
Resolving == Validated /\ ~SizeWithFrame

\* C1, as stated: a request with two or more non-empty parameters is refused
\* with ConflictingParameters, a request with none with MissingParameter, and a
\* follow type is chosen only when exactly one is non-empty.
C1_Original ==
    Resolving =>
        /\ NonEmptyCount >= 2 => response = BadRequest("ConflictingParameters")
        /\ NonEmptyCount = 0 => response = BadRequest("MissingParameter")
        /\ locals.followType # "undefined" => NonEmptyCount = 1

\* C1, amended: a request with none non-empty is refused with MissingParameter;
\* one with two or more is refused with 400, ConflictingParameters unless the
\* name is non-empty and was refused by the name check, which comes first
\* (InvalidNameFormat); a follow type is chosen only when exactly one is
\* non-empty, and it is that parameter's type.
C1_Exclusive ==
    Resolving =>
        /\ NonEmptyCount = 0 => response = BadRequest("MissingParameter")
        /\ NonEmptyCount >= 2 =>
              /\ response.status = 400
              /\ response.error \in {"ConflictingParameters", "InvalidNameFormat"}
              /\ ~NonEmptyParam(query.name) => response.error = "ConflictingParameters"
        /\ locals.followType # "undefined" =>
              /\ NonEmptyCount = 1
              /\ locals.followType = "people" => NonEmptyParam(query.name)
              /\ locals.followType = "organisation" => NonEmptyParam(query.organisation)
              /\ locals.followType = "function_tag" => NonEmptyParam(query.function_tag)

C1_Witness ==
    /\ Resolving
    /\ NonEmptyParam(query.name) /\ NonEmptyParam(query.organisation)
    /\ response = BadRequest("ConflictingParameters")

\* C2: when the name is the one non-empty parameter, a name of fewer than two
\* space-separated tokens is refused with InvalidNameFormat, whatever the verify
\* parameter, and a name of two or more is not.
C2_NameFormat ==
    (Resolving /\ NonEmptyParam(query.name) /\ NonEmptyCount = 1) =>
        /\ SplitLength(query.name) < 2 => response = BadRequest("InvalidNameFormat")
        /\ SplitLength(query.name) >= 2 => response.error # "InvalidNameFormat"

\* the first response of callJORFSearchPeople carried a string body
FirstIsString == ~Failed(client.res1) /\ client.res1.data.t = "string"

\* C3, as stated: a string body on the first request always leads to exactly
\* one follow-up request, and no call issues more than two requests.
C3_Original ==
    /\ Len(requests) <= 2
    /\ (client.fn = "people" /\ client.pc = "returned" /\ FirstIsString) => Len(requests) = 2

\* C3, amended: a string body on the first request leads to exactly one
\* follow-up request when the transport gives a non-empty resolved location, to
\* that location with ?format=JSON appended unless it ends with it, and to none
\* (and an empty list) when it gives no location; the follow-up's result is
\* final, a failed, null or string follow-up giving the empty list; no call
\* issues more than two requests.
C3_OneFollowUp ==
    /\ Len(requests) <= 2
    /\ (client.fn = "people" /\ client.pc = "returned") =>
          IF FirstIsString
          THEN IF NonEmptyParam(client.res1.responseUrl)
               THEN /\ Len(requests) = 2
                    /\ requests[2] \in {client.res1.responseUrl,
                                        client.res1.responseUrl \o <<FORMAT_JSON>>}
                    /\ Cardinality({i \in 1..Len(requests[2]) : requests[2][i] = FORMAT_JSON}) = 1
                    /\ requests[2][Len(requests[2])] = FORMAT_JSON
                    /\ (Failed(client.res2) \/ client.res2.data.t \in {"null", "string"})
                          => client.result = EmptyList
               ELSE Len(requests) = 1 /\ client.result = EmptyList
          ELSE Len(requests) = 1

C3_Witness ==
    /\ client.fn = "people" /\ client.pc = "returned" /\ FirstIsString
    /\ Len(requests) = 2
    /\ client.res2.transport = "ok" /\ client.res2.data.t = "string"
    /\ client.result = EmptyList

\* the entry point returned the empty list, or a value that reads as one (a
\* length of 0)
ReturnedEmpty ==
    client.result.t # "null"
    /\ (IF client.result.t = "string" THEN Len(client.result.s) ELSE Len(client.result.a)) = 0

\* C4: whatever entry point is called, a network error, a non-2xx status or a
\* malformed body on the first or on the follow-up request gives the empty
\* list, and the organisation branch of /qrcode then answers NotFound.
C4_FailOpen ==
    /\ (client.pc = "returned" /\ (TransportFailure(client.res1) \/ TransportFailure(client.res2)))
          => ReturnedEmpty
    /\ (entry = "qrcode" /\ locals.followType = "organisation" /\ pc \in {"render", "done"}
          /\ TransportFailure(client.res1))
          => response = BadRequest("NotFound")

\* C5: in the organisation branch the name lookup is called, once, whatever the
\* verify parameter; a result of length 0 is refused with NotFound, one of
\* length above 1 with AmbiguousResult, and the branch goes on only with a
\* result of length 1, whose first element's name is the label.
C5_Organisation ==
    (entry = "qrcode" /\ locals.followType = "organisation" /\ pc \notin {"start", "resolve"}) =>
        /\ calls = <<[fn |-> "organisation_name", a |-> query.organisation, b |-> Undefined]>>
        /\ pc \in {"render", "done"} =>
              LET r == client.result
                  n == IF r.t = "string" THEN Len(r.s) ELSE Len(r.a)
              IN  /\ (r.t # "null" /\ n = 0) => response = BadRequest("NotFound")
                  /\ (r.t # "null" /\ n > 1) => response = BadRequest("AmbiguousResult")
                  /\ (pc = "render" \/ response.status = 200) =>
                        /\ r.t # "null" /\ n = 1
                        /\ locals.followLabel = IF r.t = "array" THEN r.a[1].name ELSE Undefined

C5_Witness ==
    /\ entry = "qrcode" /\ locals.followType = "organisation" /\ pc = "done"
    /\ query.verify = Undefined
    /\ client.result.t = "array" /\ Len(client.result.a) = 2
    /\ response = BadRequest("AmbiguousResult")

\* C6: the normaliser applied to its own output changes nothing.
C6_Idempotent == norm.pc = "twice" => norm.twice = norm.once

\* both name fields are there: neither missing nor null
FieldsPresent(item) == Str(item.prenom) /\ Str(item.nom)
\* both name fields are there and non-empty
FieldsNonEmpty(item) == FieldsPresent(item) /\ item.prenom # <<>> /\ item.nom # <<>>

\* the three search entry points returned after a well-formed response
Normalised == client.pc = "returned" /\ client.fn \in {"people", "tag", "organisation"}
              /\ LastOutcome.transport = "ok"

\* C7, as stated: of an array the items with both name fields present and
\* non-empty are kept, in order, and no others; null gives the empty list.
C7_Original ==
    Normalised =>
        /\ LastOutcome.data.t = "null" => client.result = EmptyList
        /\ LastOutcome.data.t = "array" =>
              client.result = ArrayData(SelectSeq(LastOutcome.data.a, FieldsNonEmpty))

\* C7, amended: of an array the items with both name fields present (neither
\* missing nor null) are kept, in order, and no others, so that an item whose
\* field is the empty string is kept; null gives the empty list.
C7_KeepsPresent ==
    Normalised =>
        /\ LastOutcome.data.t = "null" => client.result = EmptyList
        /\ LastOutcome.data.t = "array" =>
              client.result = ArrayData(SelectSeq(LastOutcome.data.a, FieldsPresent))

C7_Witness ==
    /\ Normalised /\ LastOutcome.data.t = "array"
    /\ Len(LastOutcome.data.a) = 2
    /\ ~FieldsPresent(LastOutcome.data.a[1])
    /\ client.result = ArrayData(<<[prenom |-> <<"J">>, nom |-> <<"D">>]>>)

\* the argument of the request's follow type, as it came
RawArgument ==
    CASE locals.followType = "people" -> query.name
      [] locals.followType = "organisation" -> query.organisation
      [] OTHER -> query.function_tag

TemplateOf(followType) ==
    CASE followType = "people" -> "/choose?name="
      [] followType = "organisation" -> "/choose?&organisation="
      [] OTHER -> "/choose?&function_tag="

\* C8, as stated: the URL of every resolved request is the /choose path of the
\* application with the follow type's own parameter set to the raw argument.
C8_Original ==
    locals.qr_url # Undefined =>
        locals.qr_url = encodeURI(<<APP_URL, TemplateOf(locals.followType)>> \o RawArgument)

\* C8, amended: the URL of every resolved request is the /choose path of the
\* application with the follow type's own parameter; its value is the raw
\* argument for an organisation, a tag and an unverified person, and for a
\* verified person the label made of the first item returned, prenom then nom.
C8_Template ==
    locals.qr_url # Undefined =>
        locals.qr_url =
            encodeURI(<<APP_URL, TemplateOf(locals.followType)>>
                      \o (IF locals.followType = "people" /\ NonEmptyParam(query.verify)
                          THEN client.result.a[1].prenom \o <<" ">> \o client.result.a[1].nom
                          ELSE RawArgument))

C8_Witness ==
    /\ response.status = 200
    /\ locals.followType = "people" /\ NonEmptyParam(query.verify)
    /\ query.name = <<"j", " ", "d">>
    /\ locals.qr_url = <<APP_URL, "/choose?name=", "J", "%20", "D">>

\* C9: in the person branch, when the verify parameter asks for it the people
\* search is called once with the name as it came and requests the normalised
\* name; an empty result is refused with NotFound, and otherwise the label is
\* prenom, a space and nom of the first item.  When it does not, nothing is
\* called or requested and the label is the name as it came.
C9_Person ==
    (entry = "qrcode" /\ locals.followType = "people" /\ pc \notin {"start", "resolve"}) =>
        IF NonEmptyParam(query.verify)
        THEN /\ calls = <<[fn |-> "people", a |-> query.name, b |-> Undefined]>>
             /\ requests[1] = encodeURI(<<JORF, "name/">> \o cleanPeopleNameJORFURL(query.name)
                                        \o <<FORMAT_JSON>>)
             /\ pc \in {"render", "done"} =>
                   IF client.result.a = <<>> THEN response = BadRequest("NotFound")
                   ELSE locals.followLabel =
                            client.result.a[1].prenom \o <<" ">> \o client.result.a[1].nom
        ELSE /\ calls = <<>> /\ requests = <<>>
             /\ locals.followLabel = query.name

C9_Witness ==
    /\ entry = "qrcode" /\ locals.followType = "people" /\ response.status = 200
    /\ NonEmptyParam(query.verify)
    /\ Len(client.result.a) = 2
    /\ locals.followLabel = <<"J", " ", "D">>
    /\ requests[1] = <<JORF, "name/", "J", "%20", "D", FORMAT_JSON>>

\* C10: the text of the overlay is hidden exactly when there is no label, and a
\* label that is there is shown as it is.
C10_Overlay ==
    overlay.drawn =>
        /\ overlay.hidden <=> ~NonEmptyParam(locals.followLabel)
        /\ overlay.text = IF NonEmptyParam(locals.followLabel) THEN locals.followLabel ELSE <<>>

====
